---- MODULE Spec2Model ----
(***************************************************************************)
(* AutoSAD (src/AutoSAD/autosad copy 9.py): a fixed-size pool of streaming  *)
(* anomaly scorers, a bandit that picks the arm whose score is reported,    *)
(* and a periodic evolution cycle (mutation + diversity guard).             *)
(*                                                                         *)
(* Numbers.  Python floats are kept in fixed point with unit ONE (1.0):     *)
(* a float f is the integer floor(f * ONE).  Raw scorer outputs are small   *)
(* integers (the scorers themselves are external).  The stream lengths of   *)
(* the source (evolution every 1000 instances, a reward window of 1000, a   *)
(* minimum history of 100) are scaled down to EvolvePeriod, WindowSize and  *)
(* MinHistory so that evolution cycles are within reach of the checker.     *)
(*                                                                         *)
(* Randomness.  numpy's process-wide generator is a seeded deterministic    *)
(* stream: np_random[p] is the generator state of process p, Seeded(s) the  *)
(* state after np.random.seed(s), NextState the state after one draw and    *)
(* Variate the uniform variate the draw returns.                            *)
(***************************************************************************)
EXTENDS Integers, Sequences, FiniteSets, TLC

\* ------------------------------------------------------------------ bounds
MaxModels == 3      \* n_models ranges over 1..MaxModels
MaxSeed == 3        \* random_state ranges over 0..MaxSeed
MaxSteps == 5       \* instances fed to one object
MaxRaw == 1         \* raw scorer outputs range over 0..MaxRaw
EvolvePeriod == 4   \* stands for the literal 1000 of fit_score_partial
WindowSize == 4     \* stands for window_size = 1000 of the reward calculator
MinHistory == 2     \* stands for the 100 samples calculate_rewards asks for
MaxTwinModels == 2  \* n_models of two objects that are run side by side
MaxSharedSteps == 1 \* instances fed to an object that shares a process
MaxMutations == 2   \* mutate calls on one arm
MaxExponent == 10   \* 2 ** x overflows beyond this x, underflows below -x
MaxProduct == 2000000000    \* the largest product of two values in units of 1/ONE
MaxTunerSteps == 3  \* instances scored by the pool of the decay update
MaxCycles == 2      \* evolution cycles of that pool
MaxCalls == 4       \* calls of process on the stand-alone PostProcessor
MaxFloat == 1000000 \* the largest finite float
MaxScore == 2       \* its raw scores range over -MaxScore..MaxScore
MaxUpdates == 5     \* score vectors fed to the stand-alone reward calculators
WarmUpUpdates == 3  \* stands for the literal 100 of the consensus warm-up
MinUpdates == 2     \* stands for the 10 updates the consensus reward asks for
PipeCapacity == 2   \* lines an operating-system pipe buffers before a write blocks
MaxOutput == 4      \* lines the child of run_script writes in all

\* The float 1.0 in fixed point.
ONE == 1000

Objects == {1, 2, 3}
Procs == {1, 2}

\* ------------------------------------------------------------ arithmetic
Abs(x) == IF x < 0 THEN -x ELSE x
Min2(a, b) == IF a < b THEN a ELSE b
Max2(a, b) == IF a > b THEN a ELSE b

RECURSIVE SqrtSearch(_, _, _)
SqrtSearch(x, lo, hi) ==
    IF lo >= hi THEN lo
    ELSE LET mid == (lo + hi + 1) \div 2
         IN  IF mid * mid <= x THEN SqrtSearch(x, mid, hi)
             ELSE SqrtSearch(x, lo, mid - 1)

\* floor(sqrt(x)) for 0 <= x < 2^31
ISqrt(x) == SqrtSearch(x, 0, 46340)

RECURSIVE SumSeq(_)
SumSeq(s) == IF s = <<>> THEN 0 ELSE Head(s) + SumSeq(Tail(s))

RECURSIVE SumProd(_, _)
SumProd(s, t) ==
    IF s = <<>> THEN 0 ELSE Head(s) * Head(t) + SumProd(Tail(s), Tail(t))

\* np.log(k) in units of 1/ONE, k = 1..64 (np.log is not computable here)
LnTable ==
    <<   0,  693, 1098, 1386, 1609, 1791, 1945, 2079, 2197, 2302,
      2397, 2484, 2564, 2639, 2708, 2772, 2833, 2890, 2944, 2995,
      3044, 3091, 3135, 3178, 3218, 3258, 3295, 3332, 3367, 3401,
      3433, 3465, 3496, 3526, 3555, 3583, 3610, 3637, 3663, 3688,
      3713, 3737, 3761, 3784, 3806, 3828, 3850, 3871, 3891, 3912,
      3931, 3951, 3970, 3988, 4007, 4025, 4043, 4060, 4077, 4094,
      4110, 4127, 4143, 4158 >>
Ln(k) == LnTable[k]

\* ---------------------------------------------------------- PostProcessor
\* A float is finite (inf = 0, value v with |v| <= MaxFloat), +inf (inf = 1),
\* -inf (inf = -1) or not a number (nan).
PosInf == [inf |-> 1, v |-> 0, nan |-> FALSE]
NegInf == [inf |-> -1, v |-> 0, nan |-> FALSE]
NaN == [inf |-> 0, v |-> 0, nan |-> TRUE]
Finite(x) == [inf |-> 0, v |-> x, nan |-> FALSE]
IsFinite(a) == a.inf = 0 /\ ~a.nan

\* a < b: every comparison with nan is false
FloatLess(a, b) ==
    /\ ~a.nan /\ ~b.nan
    /\ IF a.inf # 0 \/ b.inf # 0 THEN a.inf < b.inf ELSE a.v < b.v

\* the float of the exact result x: what exceeds the largest float by less
\* than its rounding step is rounded to it, what exceeds it by more is infinite
Rounded(x) ==
    IF Abs(x) <= MaxFloat THEN Finite(x)
    ELSE IF Abs(x) <= MaxFloat + MaxFloat \div ONE
         THEN Finite(IF x > 0 THEN MaxFloat ELSE -MaxFloat)
         ELSE IF x > 0 THEN PosInf ELSE NegInf

Negated(a) == [a EXCEPT !.inf = -@, !.v = -@]

\* a + b
FloatAdd(a, b) ==
    IF a.nan \/ b.nan THEN NaN
    ELSE IF a.inf # 0 /\ b.inf # 0 THEN (IF a.inf = b.inf THEN a ELSE NaN)
    ELSE IF a.inf # 0 THEN a
    ELSE IF b.inf # 0 THEN b
    ELSE Rounded(a.v + b.v)

\* a - b
FloatSub(a, b) == FloatAdd(a, Negated(b))

\* a / b for b # 0, the quotient of finite operands in units of 1/ONE
FloatDiv(a, b) ==
    IF a.nan \/ b.nan THEN NaN
    ELSE IF a.inf # 0 /\ b.inf # 0 THEN NaN
    ELSE IF b.inf # 0 THEN Finite(0)
    ELSE IF a.inf # 0 THEN (IF b.v > 0 THEN a ELSE Negated(a))
    ELSE Finite((a.v * ONE) \div b.v)

\* whether score ** 2 is beyond the largest float
SquareOverflows(score) == score # 0 /\ Abs(score) > MaxFloat \div Abs(score)

\* score ** 2 where it does not raise: a numpy float64 gives inf on overflow
Square(score) == IF SquareOverflows(score) THEN PosInf ELSE Finite(score * score)

NewPostProcessor ==
    [min |-> PosInf, max |-> NegInf, sum |-> Finite(0), sum_sq |-> Finite(0),
     count |-> 0]

ProcessMin(pp, score) ==
    IF FloatLess(Finite(score), pp.min) THEN Finite(score) ELSE pp.min

ProcessMax(pp, score) ==
    IF FloatLess(pp.max, Finite(score)) THEN Finite(score) ELSE pp.max

\* a normalisation that measures the score from the running maximum
NormalizedFromMax(score, lo, hi) ==
    LET span == FloatSub(hi, lo)
    IN  IF span = Finite(0) THEN Finite(0)
        ELSE FloatDiv(FloatSub(hi, Finite(score)), span)

\* normalized = 0.0 if span == 0 else (score - self._min) / span
Normalized(score, lo, hi) ==
    LET span == FloatSub(hi, lo)
    IN  IF span = Finite(0) THEN Finite(0)
        ELSE FloatDiv(FloatSub(Finite(score), lo), span)

\* PostProcessor.process(score) for a finite score that is a numpy float64
\* (numpy) or a Python float: the updated tracker, whether the call raised
\* (score ** 2 of a Python float raises OverflowError, after _min, _max,
\* _count and _sum were updated) and the returned value
Process(pp, score, numpy) ==
    LET lo     == ProcessMin(pp, score)
        hi     == ProcessMax(pp, score)
        raised == ~numpy /\ SquareOverflows(score)
    IN  [pp     |-> [min |-> lo, max |-> hi,
                     sum |-> FloatAdd(pp.sum, Finite(score)),
                     sum_sq |-> IF raised THEN pp.sum_sq
                                ELSE FloatAdd(pp.sum_sq, Square(score)),
                     count |-> pp.count + 1],
         raised |-> raised,
         ret    |-> IF raised THEN NaN ELSE Normalized(score, lo, hi)]

\* PostProcessor.mean(), in units of 1/ONE
PostMean(pp) ==
    IF pp.count = 0 THEN Finite(0) ELSE FloatDiv(pp.sum, Finite(pp.count))

\* ------------------------------------------------ numpy's global generator
\* np.random.seed(s): the generator state a seed determines
Seeded(s) == ((s + 1) * 7919 + 104729) % 65537

\* the generator state after one draw
NextState(x) == (75 * x + 74) % 65537

\* the uniform variate in [0, 1) a draw from state x returns, in units of 1/ONE
Variate(x) == (NextState(x) * ONE) \div 65537

\* np.random.choice(vals): a uniform pick; the index the variate u selects
UniformIndex(n, u) == 1 + (u * n) \div ONE

\* ------------------------------------------------------ hyperparameter grids
Variants ==
    << "HalfSpaceTrees", "IForestASD", "RobustRandomCutForest", "LODA",
       "OnlineIsolationForest" >>

Opt(p, kind, vals) == [p |-> p, kind |-> kind, vals |-> vals]

\* _get_hyperparameter_options()[name]; float candidates in units of 1/ONE
HyperparameterOptions(name) ==
    CASE name = "HalfSpaceTrees" ->
           << Opt("num_trees", "int", <<8, 16, 32, 64, 128>>),
              Opt("max_depth", "int", <<5, 8, 10, 12, 15>>),
              Opt("window_size", "int", <<50, 100, 150, 200, 250>>) >>
      [] name = "IForestASD" ->
           << Opt("window_size", "int", <<512, 1024, 2048, 4096>>),
              Opt("n_estimators", "int", <<16, 32, 64, 128>>),
              Opt("max_samples", "int", <<64, 128, 256, 512>>),
              Opt("contamination", "float", <<50, 100, 150, 200>>),
              Opt("anomaly_rate_threshold", "float", <<100, 200, 300, 400>>) >>
      [] name = "RobustRandomCutForest" ->
           << Opt("num_trees", "int", <<8, 16, 32, 64, 128>>),
              Opt("tree_size", "int", <<64, 128, 256, 512>>),
              Opt("shingle_size", "int", <<1, 2, 3>>) >>
      [] name = "LODA" ->
           << Opt("num_bins", "int", <<50, 100, 150, 200>>),
              Opt("num_random_cuts", "int", <<5, 10, 25, 50>>) >>
      [] name = "OnlineIsolationForest" ->
           << Opt("branching_factor", "int", <<2, 3, 4>>),
              Opt("split", "str", <<"axisparallel", "hyperplane">>),
              Opt("num_trees", "int", <<8, 16, 32, 64, 128>>),
              Opt("max_leaf_samples", "int", <<16, 32, 64>>),
              Opt("window_size", "int", <<512, 1024, 2048, 4096>>),
              Opt("growth_criterion", "str", <<"adaptive", "depth", "size">>),
              Opt("subsample", "float", <<100, 250, 500, 750, 1000>>) >>

\* The Python type of a configuration value.  np.random.choice returns numpy
\* scalars: np.int64 is no instance of int or float, np.float64 is a float.
NumpyKind(kind) ==
    CASE kind = "int" -> "np.int64"
      [] kind = "float" -> "np.float64"
      [] kind = "str" -> "np.str_"

\* isinstance(current, (int, float))
IsNumber(val) == val.kind \in {"int", "float", "np.float64"}

\* isinstance(current, int)
IsInt(val) == val.kind = "int"

\* --------------------------------------------------- weighted HP sampler
\* min(candidates, key=lambda x: abs(x - new)): the first nearest candidate,
\* new in units of 1/ONE of the candidates' unit
RECURSIVE NearestFrom(_, _, _, _)
NearestFrom(cands, new, i, best) ==
    IF i > Len(cands) THEN cands[best]
    ELSE IF Abs(cands[i] * ONE - new) < Abs(cands[best] * ONE - new)
         THEN NearestFrom(cands, new, i + 1, i)
         ELSE NearestFrom(cands, new, i + 1, best)

\* a snap that returns the draw itself, rounded, instead of a candidate
NearestUnsnapped(cands, new) == new \div ONE

Nearest(cands, new) == NearestFrom(cands, new, 2, 1)

SeqMin(s) == CHOOSE x \in {s[i] : i \in DOMAIN s} : \A i \in DOMAIN s : x <= s[i]
SeqMax(s) == CHOOSE x \in {s[i] : i \in DOMAIN s} : \A i \in DOMAIN s : x >= s[i]

\* np.std(candidates) * sigma is zero: truncnorm.rvs raises ValueError
ZeroStd(cands, sigma) == SeqMin(cands) = SeqMax(cands) \/ sigma = 0

\* truncnorm.rvs(a, b, loc=current, scale=std): a sample in [lo, hi], in units
\* of 1/ONE of the candidates' unit.  The variate is spread evenly over the
\* truncation interval (the normal quantile function is not computable here).
TruncNorm(cands, u) ==
    SeqMin(cands) * ONE + u * (SeqMax(cands) - SeqMin(cands))

\* p_keep = max(0.5, 1 - 0.5 * sigma)
PKeep(sigma) == Max2(ONE \div 2, ONE - sigma \div 2)

\* probs[i] of the categorical branch
Prob(cands, current, sigma, i) ==
    IF cands[i] = current.v THEN PKeep(sigma)
    ELSE (ONE - PKeep(sigma)) \div (Len(cands) - 1)

\* np.random.choice(candidates, p=probs): the first index whose cumulative
\* probability exceeds the variate (the last index absorbs the rounding)
RECURSIVE WeightedIndex(_, _, _, _, _, _)
WeightedIndex(cands, current, sigma, u, i, cum) ==
    IF i >= Len(cands) THEN Len(cands)
    ELSE IF cum + Prob(cands, current, sigma, i) > u THEN i
    ELSE WeightedIndex(cands, current, sigma, u, i + 1,
                       cum + Prob(cands, current, sigma, i))

\* _pwhs(current, candidates, sigma) with the generator in state x: the new
\* value, the branch that produced it, whether the call raised and the
\* generator state after the one draw it makes
PwhsNumeric(current, opt, sigma, x) ==
    IF ZeroStd(opt.vals, sigma)
    THEN [val |-> [v |-> opt.vals[UniformIndex(Len(opt.vals), Variate(x))],
                   kind |-> NumpyKind(opt.kind)],
          path |-> "uniform", raised |-> FALSE, rng |-> NextState(x)]
    ELSE [val |-> [v |-> Nearest(opt.vals, TruncNorm(opt.vals, Variate(x))),
                   kind |-> IF IsInt(current) THEN "int" ELSE opt.kind],
          path |-> "numeric", raised |-> FALSE, rng |-> NextState(x)]

\* np.random.choice(candidates, p=probs) raises ValueError when the
\* probabilities do not sum to 1, which is so when current is no candidate
PwhsCategorical(current, opt, sigma, x) ==
    IF \E i \in DOMAIN opt.vals : opt.vals[i] = current.v
    THEN [val |-> [v |-> opt.vals[WeightedIndex(opt.vals, current, sigma,
                                                 Variate(x), 1, 0)],
                   kind |-> NumpyKind(opt.kind)],
          path |-> "categorical", raised |-> FALSE, rng |-> NextState(x)]
    ELSE [val |-> current, path |-> "categorical", raised |-> TRUE, rng |-> x]

Pwhs(current, opt, sigma, x) ==
    IF IsNumber(current) THEN PwhsNumeric(current, opt, sigma, x)
    ELSE PwhsCategorical(current, opt, sigma, x)

\* ----------------------------------------------------------- arm creation
NotScaling(p) == p \notin {"feature_mins", "feature_maxes"}

\* the loop of random_model_with_params over opts.items()
RECURSIVE DrawParams(_, _, _)
DrawParams(opts, params, x) ==
    IF opts = <<>> THEN [params |-> params, rng |-> x]
    ELSE LET o == Head(opts)
         IN  IF NotScaling(o.p)
             THEN DrawParams(Tail(opts),
                    (o.p :> [v |-> o.vals[UniformIndex(Len(o.vals), Variate(x))],
                             kind |-> NumpyKind(o.kind)]) @@ params,
                    NextState(x))
             ELSE DrawParams(Tail(opts), params, x)

\* a HalfSpaceTrees arm that is given no scaling entries
WithoutScaling(self, name, params) ==
    [p \in {q \in DOMAIN params : NotScaling(q)} |-> params[p]]

\* params["feature_mins"] / ["feature_maxes"] of a HalfSpaceTrees arm
WithScaling(self, name, params) ==
    IF name = "HalfSpaceTrees"
    THEN ("feature_mins" :> [v |-> self.feature_mins, kind |-> "object"])
         @@ ("feature_maxes" :> [v |-> self.feature_maxes, kind |-> "object"])
         @@ params
    ELSE params

\* random_model_with_params(): the scorer's class, its configuration and the
\* generator state afterwards
RandomModelWithParams(self, x) ==
    LET cls == Variants[UniformIndex(Len(Variants), Variate(x))]
        d   == DrawParams(HyperparameterOptions(cls),
                          "random_state" :> [v |-> self.random_state, kind |-> "int"],
                          NextState(x))
    IN  [model |-> cls, params |-> WithScaling(self, cls, d.params), rng |-> d.rng]

\* new_params[p] = self._pwhs(...): the draw s for the grid parameter o joins
\* the configuration made so far (a call that raised ends the loop)
Resampled(acc, o, s) ==
    IF s.raised THEN [acc EXCEPT !.raised = TRUE, !.rng = s.rng]
    ELSE [params |-> (o.p :> s.val) @@ acc.params,
          paths  |-> (o.p :> s.path) @@ acc.paths,
          raised |-> FALSE, rng |-> s.rng]

\* the loop of mutate over opts.items(): the new configuration, the branch of
\* _pwhs each resampled parameter took, whether a _pwhs call raised and the
\* generator state
RECURSIVE MutateParams(_, _, _, _)
MutateParams(opts, params, acc, sigma) ==
    IF opts = <<>> \/ acc.raised THEN acc
    ELSE IF Head(opts).p \in DOMAIN params /\ NotScaling(Head(opts).p)
         THEN MutateParams(Tail(opts), params,
                           Resampled(acc, Head(opts),
                                     Pwhs(params[Head(opts).p], Head(opts),
                                          sigma, acc.rng)),
                           sigma)
         ELSE MutateParams(Tail(opts), params, acc, sigma)

\* return cls(**new_params), new_params
NewArm(self, name, m) ==
    [model |-> name, params |-> WithScaling(self, name, m.params),
     paths |-> m.paths, raised |-> m.raised, rng |-> m.rng]

\* a mutate that draws the scorer anew
MutateRedrawing(self, name, params, x) ==
    [paths |-> <<>>, raised |-> FALSE] @@ RandomModelWithParams(self, x)

\* mutate(model, params): a scorer of the same class with resampled parameters
Mutate(self, name, params, x) ==
    NewArm(self, name,
           MutateParams(HyperparameterOptions(name), params,
                        [params |-> ("random_state" :>
                                        [v |-> self.random_state, kind |-> "int"])
                                    @@ params,
                         paths |-> <<>>, raised |-> FALSE, rng |-> x],
                        self.exploration_std))

\* ----------------------------------------- MedianCorrelationRewardCalculator
NewRewardCalculator == [model_scores |-> <<>>, median_scores |-> <<>>, n_models |-> 0]

\* the sequence s in ascending order
RECURSIVE Insert(_, _)
Insert(s, x) ==
    IF s = <<>> THEN <<x>>
    ELSE IF x < Head(s) THEN <<x>> \o s
    ELSE <<Head(s)>> \o Insert(Tail(s), x)

RECURSIVE Sorted(_)
Sorted(s) == IF s = <<>> THEN <<>> ELSE Insert(Sorted(Tail(s)), Head(s))

\* np.median(normalized_scores)
Median(s) ==
    LET t == Sorted(s)
        n == Len(s)
    IN  IF n % 2 = 1 THEN t[(n + 1) \div 2]
        ELSE (t[n \div 2] + t[n \div 2 + 1]) \div 2

TrimNewest(s) == IF Len(s) > WindowSize THEN SubSeq(s, 1, WindowSize) ELSE s

\* list.pop(0) once the list is longer than the window
Trim(s) == IF Len(s) > WindowSize THEN Tail(s) ELSE s

\* update_scores(normalized_scores)
UpdateScores(rc, normalized) ==
    LET first == rc.model_scores = <<>>
        n     == IF first THEN Len(normalized) ELSE rc.n_models
        hist  == IF first THEN [i \in 1..n |-> <<>>] ELSE rc.model_scores
        med   == Append(rc.median_scores, Median(normalized))
        full  == [i \in 1..n |-> Append(hist[i], normalized[i])]
    IN  [model_scores  |-> IF Len(med) > WindowSize
                           THEN [i \in 1..n |-> Tail(full[i])]
                           ELSE full,
         median_scores |-> Trim(med),
         n_models      |-> n]

\* np.std(xs) > 0: the values are not all equal
Spread(xs) == \E i, j \in DOMAIN xs : xs[i] # xs[j]

\* the values of xs in units of 1/50, which keeps the products below 2^31
Coarse(xs) == [i \in DOMAIN xs |-> (xs[i] * 50) \div ONE]

\* n * sum(x*y) - sum(x) * sum(y)
CoMoment(xs, ys) == Len(xs) * SumProd(xs, ys) - SumSeq(xs) * SumSeq(ys)

\* abs(np.corrcoef(xs, ys)[0, 1]) in units of 1/ONE; corrcoef clips to [-1, 1]
\* and a NaN (no spread left after rounding) is mapped to 0
AbsCorr(xs, ys) ==
    LET x == Coarse(xs)
        y == Coarse(ys)
        d == ISqrt(CoMoment(x, x) * CoMoment(y, y))
    IN  IF d = 0 THEN 0
        ELSE Min2(ONE, (Abs(CoMoment(x, y)) * ONE) \div d)

\* the correlation with its sign
SignedCorr(xs, ys) ==
    IF CoMoment(Coarse(xs), Coarse(ys)) < 0 THEN -AbsCorr(xs, ys)
    ELSE AbsCorr(xs, ys)

SignedRewards(rc) ==
    IF rc.model_scores = <<>> \/ Len(rc.model_scores[1]) < MinHistory
    THEN [i \in 1..rc.n_models |-> 0]
    ELSE [i \in 1..rc.n_models |->
            IF Spread(rc.model_scores[i]) /\ Spread(rc.median_scores)
            THEN SignedCorr(rc.model_scores[i], rc.median_scores)
            ELSE 0]

\* calculate_rewards()
CalculateRewards(rc) ==
    IF rc.model_scores = <<>> \/ Len(rc.model_scores[1]) < MinHistory
    THEN [i \in 1..rc.n_models |-> 0]
    ELSE [i \in 1..rc.n_models |->
            IF Spread(rc.model_scores[i]) /\ Spread(rc.median_scores)
            THEN AbsCorr(rc.model_scores[i], rc.median_scores)
            ELSE 0]

\* ------------------------------------------------------------- BanditGate
DefaultDecay == ONE \div 5

\* BanditGate(n_arms)
NewBanditGate(n_arms) ==
    [n |-> [i \in 1..n_arms |-> 0], mean |-> [i \in 1..n_arms |-> 0],
     t |-> 0, decay |-> DefaultDecay]

\* (1 - decay) * reward + decay * mean[arm]
Ewma(decay, reward, mean) == ((ONE - decay) * reward + decay * mean) \div ONE

\* an update that advances t once per instance, with the first arm
BanditUpdateOncePerInstance(b, arm, reward) ==
    [n     |-> [b.n EXCEPT ![arm] = @ + 1],
     mean  |-> [b.mean EXCEPT ![arm] = Ewma(b.decay, reward, @)],
     t     |-> b.t + (IF arm = 1 THEN 1 ELSE 0),
     decay |-> b.decay]

\* update(arm_idx, reward)
BanditUpdate(b, arm, reward) ==
    [n     |-> [b.n EXCEPT ![arm] = @ + 1],
     mean  |-> [b.mean EXCEPT ![arm] = Ewma(b.decay, reward, @)],
     t     |-> b.t + 1,
     decay |-> b.decay]

\* np.sqrt(2 * np.log(max(1, t)) / np.maximum(1, n))
Conf(b, i) == ISqrt((2 * Ln(Max2(1, b.t)) * ONE) \div Max2(1, b.n[i]))

\* ucb()
Ucb(b) == [i \in DOMAIN b.n |-> b.mean[i] + Conf(b, i)]

\* norm.cdf(z) and norm.pdf(z) for z = 0, -0.1, ..., -4.0, in units of 1/ONE
\* (the normal distribution is not computable here)
NormCdfTable ==
    << 500, 460, 421, 382, 345, 309, 274, 242, 212, 184, 159, 136, 115, 97,
       81, 67, 55, 45, 36, 29, 23, 18, 14, 11, 8, 6, 5, 3, 3, 2, 1, 1, 1, 0,
       0, 0, 0, 0, 0, 0, 0 >>
NormPdfTable ==
    << 399, 397, 391, 381, 368, 352, 333, 312, 290, 266, 242, 218, 194, 171,
       150, 130, 111, 94, 79, 66, 54, 44, 35, 28, 22, 18, 14, 10, 8, 6, 4, 3,
       2, 2, 1, 1, 1, 0, 0, 0, 0 >>

\* the table row of z <= 0
NormRow(z) == 1 + Min2(Len(NormCdfTable) - 1, ((-z) * 10) \div ONE)
NormCdf(z) == NormCdfTable[NormRow(z)]
NormPdf(z) == NormPdfTable[NormRow(z)]

\* best = mu.min(); imp = best - mu
Imp(b, i) == SeqMin(b.mean) - b.mean[i]

\* z[mask] = imp[mask] / conf[mask], 0 where conf is 0
ZScore(b, i) == IF Conf(b, i) > 0 THEN (Imp(b, i) * ONE) \div Conf(b, i) ELSE 0

\* ei()
Ei(b) ==
    [i \in DOMAIN b.n |->
        -((Imp(b, i) * NormCdf(ZScore(b, i))
           + Conf(b, i) * NormPdf(ZScore(b, i))) \div ONE)]

\* pi()
Pi(b) == [i \in DOMAIN b.n |-> -NormCdf(ZScore(b, i))]

\* strategy.upper(), on the strategy strings of the model
Upper(strategy) ==
    CASE strategy = "ucb" -> "UCB"
      [] strategy = "ei" -> "EI"
      [] strategy = "pi" -> "PI"
      [] OTHER -> strategy

\* acq(strategy) raises ValueError for a strategy it does not know
AcqRaises(strategy) == Upper(strategy) \notin {"UCB", "EI", "PI"}

\* acq(strategy), where it does not raise
Acq(b, strategy) ==
    CASE Upper(strategy) = "UCB" -> Ucb(b)
      [] Upper(strategy) = "EI" -> Ei(b)
      [] Upper(strategy) = "PI" -> Pi(b)

\* the first index of the greatest value
ArgMax(xs) ==
    CHOOSE i \in DOMAIN xs :
        /\ \A j \in DOMAIN xs : xs[i] >= xs[j]
        /\ \A j \in DOMAIN xs : xs[j] = xs[i] => i <= j

\* np.argmin(xs): the first index of the least value
ArgMin(xs) ==
    CHOOSE i \in DOMAIN xs :
        /\ \A j \in DOMAIN xs : xs[i] <= xs[j]
        /\ \A j \in DOMAIN xs : xs[j] = xs[i] => i <= j

\* np.argsort(xs): indices by ascending value, equal values by index (numpy
\* sorts arrays of up to 16 elements by insertion, which is stable)
Before(xs, i, j) == xs[i] < xs[j] \/ (xs[i] = xs[j] /\ i < j)
Rank(xs, i) == 1 + Cardinality({j \in DOMAIN xs : Before(xs, j, i)})
ArgSort(xs) == [r \in DOMAIN xs |-> CHOOSE i \in DOMAIN xs : Rank(xs, i) = r]

\* ---------------------------------------------------------------- AutoSAD
\* 2 ** (-avg) in units of 1/ONE: exact at whole avg, linear in between
Pow2Neg(avg) ==
    LET k == avg \div ONE
        f == avg - k * ONE
    IN  IF k >= 0 THEN (ONE - f \div 2) \div (2 ^ k)
        ELSE (ONE - f \div 2) * (2 ^ (-k))

\* np.clip(x, lo, hi)
Clip(x, lo, hi) == Max2(lo, Min2(hi, x))

\* np.mean(means) of floats in units of 1/ONE: nan where a mean is nan or
\* where +inf meets -inf, infinite where the sum is
MeanOfMeans(means) ==
    LET idx == DOMAIN means
    IN  IF \E i \in idx : means[i].nan THEN NaN
        ELSE IF \E i, j \in idx : means[i].inf = 1 /\ means[j].inf = -1 THEN NaN
        ELSE IF \E i \in idx : means[i].inf = 1 THEN PosInf
        ELSE IF \E i \in idx : means[i].inf = -1 THEN NegInf
        ELSE Finite(SumSeq([i \in idx |-> means[i].v]) \div Len(means))

\* 2 ** (-avg) of a numpy float: 0.0 on underflow, inf on overflow
DecayFactor(avg) ==
    IF avg.nan THEN NaN
    ELSE IF avg.inf = 1 \/ (avg.inf = 0 /\ avg.v >= MaxExponent * ONE)
         THEN Finite(0)
    ELSE IF avg.inf = -1 \/ (avg.inf = 0 /\ avg.v <= -(MaxExponent * ONE))
         THEN PosInf
    ELSE Finite(Pow2Neg(avg.v))

\* x * f for a finite x >= 0 and a factor f >= 0, both in units of 1/ONE; a
\* product beyond the largest representable value is infinite
Times(x, f) ==
    IF f.nan THEN NaN
    ELSE IF f.inf # 0 THEN (IF x = 0 THEN NaN ELSE PosInf)
    ELSE IF f.v # 0 /\ x > MaxProduct \div f.v THEN PosInf
    ELSE Finite((x * f.v) \div ONE)

\* np.clip(x, 0.1, 2.0) of a float: nan stays nan
ClipFloat(x) ==
    IF x.nan THEN NaN
    ELSE IF x.inf = 1 THEN Finite(2 * ONE)
    ELSE IF x.inf = -1 THEN Finite(ONE \div 10)
    ELSE Finite(Clip(x.v, ONE \div 10, 2 * ONE))

\* max(0.01, x) of Python: x where x > 0.01, else 0.01 (so 0.01 for nan)
MaxWithFloor(x) ==
    IF FloatLess(Finite(ONE \div 100), x) THEN x ELSE Finite(ONE \div 100)

\* the update of exploration_std and bandit.decay in _evolve, for finite
\* exploration_std and decay and the normalizers scores
DecayUpdate(std, decay, scores) ==
    LET f == DecayFactor(MeanOfMeans([i \in DOMAIN scores |-> PostMean(scores[i])]))
    IN  [exploration_std |-> ClipFloat(Times(std, f)),
         decay |-> MaxWithFloor(Times(decay, f))]

\* -------------------------------------------- SimpleAnomalyRewardCalculator
NewSimpleCalculator == [recent_scores |-> <<>>]

\* update_scores(normalized_scores): each arm's list gets its score and
\* loses its first entry once it is longer than window_size
SimpleUpdateScores(sc, normalized) ==
    LET hist == IF sc.recent_scores = <<>>
                THEN [i \in 1..Len(normalized) |-> <<>>]
                ELSE sc.recent_scores
    IN  [recent_scores |->
           [i \in DOMAIN hist |-> Trim(Append(hist[i], normalized[i]))]]

\* ------------------------------------------------ ConsensusRewardCalculator
\* the product of two values in units of 1/ONE, rounded towards zero
Mul(a, b) ==
    IF (a < 0) = (b < 0) THEN (Abs(a) * Abs(b)) \div ONE
    ELSE -((Abs(a) * Abs(b)) \div ONE)

\* __init__(window_size, decay_factor)
NewConsensusCalculator(decay_factor) ==
    [n_models |-> 0, decay |-> decay_factor, means |-> <<>>,
     variances |-> <<>>, covariances |-> <<>>, corr_matrix |-> <<>>,
     n_updates |-> 0, rewards |-> <<>>, effective_decay |-> 0]

\* the arrays of zeros of the first update_scores
ConsensusInitialized(cc, n) ==
    IF cc.n_models # 0 THEN cc
    ELSE [cc EXCEPT !.n_models = n,
                    !.means = [i \in 1..n |-> 0],
                    !.variances = [i \in 1..n |-> 0],
                    !.covariances = [i \in 1..n |-> [j \in 1..n |-> 0]],
                    !.corr_matrix = [i \in 1..n |-> [j \in 1..n |-> 0]],
                    !.rewards = [i \in 1..n |-> 0]]

\* min(1.0, self.decay * 10) if self.n_updates < 100 else self.decay
EffectiveDecay(decay, n_updates) ==
    IF n_updates < WarmUpUpdates THEN Min2(ONE, decay * 10) ELSE decay

\* the means and variances after the update with the decay d
ConsensusMoments(cc, scores, d) ==
    LET delta == [i \in 1..cc.n_models |-> scores[i] - cc.means[i]]
    IN  [cc EXCEPT
           !.effective_decay = d,
           !.means = [i \in 1..cc.n_models |-> @[i] + Mul(d, delta[i])],
           !.variances = [i \in 1..cc.n_models |->
                            Mul(ONE - d, @[i] + Mul(d, Mul(delta[i], delta[i])))]]

\* np.any(self.variances < 1e-10): 1e-10 is less than one unit of 1/ONE
NoVariance(cc) == \E i \in 1..cc.n_models : cc.variances[i] < 1

\* the covariance of the pair i < j: delta[i] is taken from the means before
\* the update (old), delta_j from the means after it (cc)
CovUpdate(old, cc, scores, i, j) ==
    Mul(ONE - cc.effective_decay, old.covariances[i][j])
    + Mul(cc.effective_decay,
          Mul(scores[i] - old.means[i], scores[j] - cc.means[j]))

\* np.sqrt(self.variances[i]) in units of 1/ONE
Std(cc, i) == ISqrt(cc.variances[i] * ONE)

\* max(min(cov / (std_i * std_j), 1.0), -1.0); the entry keeps its value
\* where a standard deviation is not above 1e-10
Corr(cc, cov, i, j) ==
    IF Std(cc, i) > 0 /\ Std(cc, j) > 0
    THEN LET q == (Abs(cov) * ONE) \div Std(cc, i)
             c == (q * ONE) \div Std(cc, j)
         IN  Clip(IF cov < 0 THEN -c ELSE c, -ONE, ONE)
    ELSE cc.corr_matrix[i][j]

\* np.abs(np.mean(reward_matrix, axis=1)) of the matrix with a zero diagonal
RowReward(row, i) ==
    Abs(SumSeq([j \in DOMAIN row |-> IF j = i THEN 0 ELSE row[j]]))
        \div Len(row)

\* the covariances, the correlation matrix and the rewards of an update that
\* does not leave early
ConsensusCorrelate(old, cc, scores) ==
    LET n   == cc.n_models
        cov == [i \in 1..n |-> [j \in 1..n |->
                  IF i = j THEN old.covariances[i][j]
                  ELSE CovUpdate(old, cc, scores, Min2(i, j), Max2(i, j))]]
        cor == [i \in 1..n |-> [j \in 1..n |->
                  IF i = j THEN ONE
                  ELSE Corr(cc, cov[i][j], Min2(i, j), Max2(i, j))]]
    IN  [cc EXCEPT !.covariances = cov,
                   !.corr_matrix = cor,
                   !.rewards = [i \in 1..n |-> RowReward(cor[i], i)]]

\* the update from the moments on: rewards = scores on the early exit
ConsensusFrom(old, cc, scores) ==
    IF cc.n_updates < MinUpdates \/ NoVariance(cc)
    THEN [cc EXCEPT !.rewards = scores]
    ELSE ConsensusCorrelate(old, cc, scores)

ConsensusCounted(cc) == [cc EXCEPT !.n_updates = @ + 1]

ConsensusDecayed(cc, scores) ==
    ConsensusFrom(cc, ConsensusMoments(cc, scores,
                                       EffectiveDecay(cc.decay, cc.n_updates)),
                  scores)

\* update_scores(normalized_scores)
ConsensusUpdateScores(cc, normalized) ==
    ConsensusDecayed(ConsensusCounted(ConsensusInitialized(cc, Len(normalized))),
                     normalized)

\* bandit.mean[idx] = 0.0; bandit.n[idx] = 0
ResetCountOnly(b, idx) == [b EXCEPT !.n[idx] = 0]

ResetArm(b, idx) == [b EXCEPT !.mean[idx] = 0, !.n[idx] = 0]

\* a replacement that appends the new scorer instead of overwriting slot idx
ReplaceAppending(a, idx, model, params) ==
    [a EXCEPT !.models = Append(@, model),
              !.model_params = Append(@, params),
              !.scores = Append(@, NewPostProcessor),
              !.bandit = ResetArm(a.bandit, idx)]

\* a replacement that leaves the slot's normalizer as it is
ReplaceKeepingNormalizer(a, idx, model, params) ==
    [a EXCEPT !.models[idx] = model,
              !.model_params[idx] = params,
              !.bandit = ResetArm(a.bandit, idx)]

\* a replacement that also starts the slot's reward history afresh
ReplaceClearingHistory(a, idx, model, params) ==
    [a EXCEPT !.models[idx] = model,
              !.model_params[idx] = params,
              !.scores[idx] = NewPostProcessor,
              !.bandit = ResetArm(a.bandit, idx),
              !.reward_calculator.model_scores[idx] = <<>>]

\* a new scorer in slot idx: models, model_params, scores and the bandit's arm
Replace(a, idx, model, params) ==
    [a EXCEPT !.models[idx] = model,
              !.model_params[idx] = params,
              !.scores[idx] = NewPostProcessor,
              !.bandit = ResetArm(a.bandit, idx)]

\* the scorer m in slot idx of the pool a, and the generator after making it
Placed(a, idx, m) ==
    [self |-> Replace(a, idx, m.model, m.params), rng |-> m.rng]

\* models.append(m); model_params.append(p); scores.append(PostProcessor())
Appended(a, m) ==
    [self |-> [a EXCEPT !.models = Append(@, m.model),
                        !.model_params = Append(@, m.params),
                        !.scores = Append(@, NewPostProcessor)],
     rng |-> m.rng]

\* _init_pool(): while len(self.models) < self.n_models; s holds the object
\* and the generator state
RECURSIVE InitPool(_)
InitPool(s) ==
    IF Len(s.self.models) >= s.self.n_models THEN s
    ELSE InitPool(Appended(s.self, RandomModelWithParams(s.self, s.rng)))

\* the attributes __init__ sets before _init_pool()
Attributes(c) ==
    [n_models |-> c.n_models,
     random_state |-> c.random_state,
     acq_strategy |-> c.acq_strategy,
     kwargs |-> [evolution_interval |-> c.evolution_interval,
                 feature_mins |-> c.feature_mins,
                 feature_maxes |-> c.feature_maxes],
     feature_mins |-> c.feature_mins,
     feature_maxes |-> c.feature_maxes,
     models |-> <<>>, model_params |-> <<>>, scores |-> <<>>,
     step |-> 0, exploration_std |-> ONE,
     bandit |-> NewBanditGate(0),
     reward_calculator |-> NewRewardCalculator]

\* a constructor that leaves the generator of the process as it finds it
NewAutoSADUnseeded(c, x) ==
    [InitPool([self |-> Attributes(c), rng |-> x])
        EXCEPT !.self.bandit = NewBanditGate(c.n_models)]

\* AutoSAD(n_models, random_state, acq_strategy, **kwargs) in a process whose
\* generator is in state x: the object and the generator state afterwards
\* (__init__ seeds the generator, so x is of no effect)
NewAutoSAD(c, x) ==
    [InitPool([self |-> Attributes(c), rng |-> Seeded(c.random_state)])
        EXCEPT !.self.bandit = NewBanditGate(c.n_models)]

\* for src, tgt in zip(top_idx, bot_idx): the mutation stage; s holds the
\* object and the generator state
RECURSIVE MutationStage(_, _, _)
MutationStage(s, top_idx, bot_idx) ==
    IF top_idx = <<>> \/ bot_idx = <<>> THEN s
    ELSE MutationStage(Placed(s.self, Head(bot_idx),
                              Mutate(s.self, s.self.models[Head(top_idx)],
                                     s.self.model_params[Head(top_idx)], s.rng)),
                       Tail(top_idx), Tail(bot_idx))

\* the keys of Counter(types), in order of first occurrence
RECURSIVE CounterKeys(_, _)
CounterKeys(types, seen) ==
    IF types = <<>> THEN seen
    ELSE IF \E k \in DOMAIN seen : seen[k] = Head(types)
         THEN CounterKeys(Tail(types), seen)
         ELSE CounterKeys(Tail(types), Append(seen, Head(types)))

\* [i for i, tt in enumerate(types) if tt == t]
RECURSIVE IndicesOf(_, _, _)
IndicesOf(types, t, i) ==
    IF i > Len(types) THEN <<>>
    ELSE IF types[i] = t THEN <<i>> \o IndicesOf(types, t, i + 1)
    ELSE IndicesOf(types, t, i + 1)

\* cnt / self.n_models > 0.7
Dominates(cnt, n) == 10 * cnt > 7 * n

\* [...][1:]: every slot of the variant but the first
IdxToReplace(types, t) == Tail(IndicesOf(types, t, 1))

\* for idx in idx_to_replace; s holds the object and the generator state
RECURSIVE ReplaceStage(_, _)
ReplaceStage(s, idxs) ==
    IF idxs = <<>> THEN s
    ELSE ReplaceStage(Placed(s.self, Head(idxs),
                             RandomModelWithParams(s.self, s.rng)),
                      Tail(idxs))

\* for t, cnt in Counter(types).items(): the diversity guard
RECURSIVE DiversityGuard(_, _, _)
DiversityGuard(s, types, keys) ==
    IF keys = <<>> THEN s
    ELSE IF Dominates(Len(IndicesOf(types, Head(keys), 1)), s.self.n_models)
         THEN DiversityGuard(ReplaceStage(s, IdxToReplace(types, Head(keys))),
                             types, Tail(keys))
         ELSE DiversityGuard(s, types, Tail(keys))

NoGuard == [variant |-> "", members |-> <<>>, replaced |-> <<>>, acq |-> <<>>]

\* what the guard of one cycle did: the dominating variant ("" if none), the
\* slots it held, the slots the guard replaced and the acquisition values the
\* bandit gave at that moment
GuardView(a, types) ==
    LET doms == {t \in {types[i] : i \in DOMAIN types} :
                   Dominates(Len(IndicesOf(types, t, 1)), a.n_models)}
    IN  IF doms = {} THEN NoGuard
        ELSE LET t == CHOOSE v \in doms : TRUE
             IN  [variant |-> t, members |-> IndicesOf(types, t, 1),
                  replaced |-> IdxToReplace(types, t),
                  acq |-> Acq(a.bandit, a.acq_strategy)]

\* the slots of the pool a: scorer, configuration, normalizer, pulls and mean
PoolOf(a) ==
    [i \in 1..a.n_models |->
        [model |-> a.models[i], params |-> a.model_params[i],
         scores |-> a.scores[i], n |-> a.bandit.n[i], mean |-> a.bandit.mean[i]]]

\* ranking[:n_top] and ranking[-n_top:] (ranking[-0:] is the whole ranking)
TopIdx(ranking, n_top) == SubSeq(ranking, 1, n_top)

\* a bottom slice that is the whole ranking for every n_top
BotIdxWhole(ranking, n_top) == ranking

BotIdx(ranking, n_top) ==
    IF n_top = 0 THEN ranking
    ELSE SubSeq(ranking, Len(ranking) - n_top + 1, Len(ranking))

\* the diversity guard on the pool m the mutation stage left, and what the
\* cycle did: its sources and targets, the guard's view, the acquisition values
\* of the ranking, the pool as ranked and as mutated
GuardStage(a1, top_idx, bot_idx, m) ==
    LET types == m.self.models
        g     == DiversityGuard(m, types, CounterKeys(types, <<>>))
    IN  [self |-> g.self, rng |-> g.rng,
         sources |-> top_idx,
         targets |-> SubSeq(bot_idx, 1, Min2(Len(top_idx), Len(bot_idx))),
         guard |-> GuardView(m.self, types),
         acq |-> Acq(a1.bandit, a1.acq_strategy),
         ranked |-> PoolOf(a1), mutated |-> PoolOf(m.self)]

\* _evolve()
Evolve(a, x) ==
    LET d       == DecayUpdate(a.exploration_std, a.bandit.decay, a.scores)
        a1      == [a EXCEPT !.exploration_std = d.exploration_std.v,
                             !.bandit.decay = d.decay.v]
        ranking == ArgSort(Acq(a1.bandit, a1.acq_strategy))
        n_top   == a1.n_models \div 2
        top_idx == TopIdx(ranking, n_top)
        bot_idx == BotIdx(ranking, n_top)
    IN  GuardStage(a1, top_idx, bot_idx,
                   MutationStage([self |-> a1, rng |-> x], top_idx, bot_idx))

NoEvolution(a, x) ==
    [self |-> a, rng |-> x, sources |-> <<>>, targets |-> <<>>, guard |-> NoGuard,
     acq |-> <<>>, ranked |-> <<>>, mutated |-> <<>>]

\* for i, model in enumerate(self.models): the scoring pass on raw scores (which
\* are far from the overflow range, where the two float types agree)
ScoringPass(a, raw) ==
    [i \in 1..Len(a.models) |-> Process(a.scores[i], raw[i], TRUE)]

\* a loop that updates the bandit for the first arm only
UpdateBanditFirstArm(b, rewards, i) ==
    IF i > 1 THEN b ELSE BanditUpdate(b, i, ONE - rewards[i])

\* for i, reward in enumerate(rewards): self.bandit.update(i, 1.0 - reward)
RECURSIVE UpdateBandit(_, _, _)
UpdateBandit(b, rewards, i) ==
    IF i > Len(rewards) THEN b
    ELSE UpdateBandit(BanditUpdate(b, i, ONE - rewards[i]), rewards, i + 1)

\* self.step % 1000 == 0
EvolutionDue(step) == step % EvolvePeriod = 0

\* the record of a call: its number in the stream, whether it raised and,
\* where it returned, the value, the selected arm and what the evolution
\* cycle did
NoCall ==
    [number |-> 0, raised |-> FALSE, ret |-> 0, arm |-> 0, evolved |-> FALSE, sources |-> <<>>,
     targets |-> <<>>, guard |-> NoGuard, acq |-> <<>>, ranked |-> <<>>,
     mutated |-> <<>>]

\* return normalized_scores[arm], after the cycle e (if one was due)
Returning(ret, arm, due, e) ==
    [self |-> e.self, rng |-> e.rng,
     call |-> [number |-> 0, raised |-> FALSE, ret |-> ret, arm |-> arm,
               evolved |-> due, sources |-> e.sources, targets |-> e.targets,
               guard |-> e.guard, acq |-> e.acq, ranked |-> e.ranked,
               mutated |-> e.mutated]]

\* fit_score_partial(X), the scorers answering X with the raw scores raw.
\* Where acq raises, the call ends with the normalizers, the reward calculator
\* and the bandit updated and the step counter as it was.
FitScorePartial(a, raw, x) ==
    LET pass    == ScoringPass(a, raw)
        normalized_scores == [i \in 1..Len(pass) |-> pass[i].ret.v]
        rc      == UpdateScores(a.reward_calculator, normalized_scores)
        rewards == CalculateRewards(rc)
        b       == UpdateBandit(a.bandit, rewards, 1)
        a0      == [a EXCEPT !.scores = [i \in 1..Len(pass) |-> pass[i].pp],
                             !.reward_calculator = rc,
                             !.bandit = b]
    IN  IF AcqRaises(a.acq_strategy)
        THEN [self |-> a0, rng |-> x, call |-> [NoCall EXCEPT !.raised = TRUE]]
        ELSE LET arm == ArgMin(Acq(b, a.acq_strategy))
                 a1  == [a0 EXCEPT !.step = @ + 1]
             IN  Returning(normalized_scores[arm], arm, EvolutionDue(a1.step),
                           IF EvolutionDue(a1.step) THEN Evolve(a1, x)
                           ELSE NoEvolution(a1, x))

\* ------------------------------------------------------------------ state
VARIABLES
    host,               \* host[o]: the process object o lives in (0: no object)
    configurations,     \* the constructor arguments the driver may pass
    np_random,          \* np_random[p]: state of process p's numpy generator
    pc,                 \* pc[o]: "none", "new" (not constructed yet) or "ready"
    n_models, random_state, acq_strategy, kwargs,
    feature_mins, feature_maxes,
    models, model_params, scores, step, exploration_std,
    bandit, reward_calculator,
    last_call,          \* last_call[o]: what o's last fit_score_partial did
    post_processor,     \* a PostProcessor used on its own
    fed,                \* the raw scores fed to it, in order
    returned,           \* what process returned for each of them
    arm,                \* a scorer and its configuration, held by a caller
    mutation,           \* what the last mutate of arm was given and made
    tuner,              \* the normalizers, exploration_std and bandit.decay
                        \* of a pool of two arms, as floats
    calculators,        \* the three reward calculators on their own, fed the
                        \* same score vectors
    process             \* run_script and the child it spawns, with their pipes

object_vars ==
    << n_models, random_state, acq_strategy, kwargs, feature_mins,
       feature_maxes, models, model_params,
       scores, step, exploration_std, bandit, reward_calculator >>
pool_vars == << host, configurations, np_random, pc, object_vars, last_call >>
post_vars == << post_processor, fed, returned >>
mutate_vars == << arm, mutation >>
tuner_vars == << tuner, calculators, process >>
rest_vars == << post_vars, mutate_vars, tuner_vars >>
vars == << pool_vars, rest_vars >>

\* the attributes of object o as one record
Self(o) ==
    [n_models |-> n_models[o], random_state |-> random_state[o],
     acq_strategy |-> acq_strategy[o], kwargs |-> kwargs[o],
     feature_mins |-> feature_mins[o], feature_maxes |-> feature_maxes[o],
     models |-> models[o], model_params |-> model_params[o],
     scores |-> scores[o], step |-> step[o],
     exploration_std |-> exploration_std[o], bandit |-> bandit[o],
     reward_calculator |-> reward_calculator[o]]

Selves == [o \in Objects |-> Self(o)]

\* the objects' attributes become those of the records f[o]
Store(f) ==
    /\ n_models' = [o \in Objects |-> f[o].n_models]
    /\ random_state' = [o \in Objects |-> f[o].random_state]
    /\ acq_strategy' = [o \in Objects |-> f[o].acq_strategy]
    /\ kwargs' = [o \in Objects |-> f[o].kwargs]
    /\ feature_mins' = [o \in Objects |-> f[o].feature_mins]
    /\ feature_maxes' = [o \in Objects |-> f[o].feature_maxes]
    /\ models' = [o \in Objects |-> f[o].models]
    /\ model_params' = [o \in Objects |-> f[o].model_params]
    /\ scores' = [o \in Objects |-> f[o].scores]
    /\ step' = [o \in Objects |-> f[o].step]
    /\ exploration_std' = [o \in Objects |-> f[o].exploration_std]
    /\ bandit' = [o \in Objects |-> f[o].bandit]
    /\ reward_calculator' = [o \in Objects |-> f[o].reward_calculator]

RawScores == 0..MaxRaw
Seeds == 0..MaxSeed

\* evolution_interval of the ablation study (500 .. 3000 against the 1000 of
\* fit_score_partial), on the scale of EvolvePeriod
EvolutionIntervals ==
    { EvolvePeriod \div 2, (3 * EvolvePeriod) \div 4, EvolvePeriod,
      (3 * EvolvePeriod) \div 2, 2 * EvolvePeriod, 3 * EvolvePeriod }

\* kwargs.get("feature_mins") where the keyword was not given (None)
None == <<>>

\* X.min(axis=0) and X.max(axis=0) of the data set of a run
DataMins == <<0, -1>>
DataMaxes == <<1, 2>>

Configuration(n, seed, strategy, interval) ==
    [n_models |-> n, random_state |-> seed, acq_strategy |-> strategy,
     evolution_interval |-> interval,
     feature_mins |-> DataMins, feature_maxes |-> DataMaxes]

\* the configuration c with other scaling vectors
WithFeatures(c, mins, maxes) ==
    [c EXCEPT !.feature_mins = mins, !.feature_maxes = maxes]

\* the generator of a process that never called np.random.seed holds what
\* the operating system's entropy made of it
Unseeded == 0..1

NoArm ==
    [model |-> "", params |-> <<>>, random_state |-> 0, mutations |-> 0]

\* the attributes mutate and random_model_with_params read of their object
Owner(seed, sigma) ==
    [random_state |-> seed, exploration_std |-> sigma,
     feature_mins |-> DataMins, feature_maxes |-> DataMaxes]
NoMutation ==
    [given |-> <<>>, sigma |-> 0, model |-> "", params |-> <<>>, paths |-> <<>>,
     raised |-> FALSE]

\* a pool of two arms after __init__: exploration_std = 1.0, decay = 0.2
NewTuner ==
    [scores |-> << NewPostProcessor, NewPostProcessor >>,
     exploration_std |-> Finite(ONE), decay |-> Finite(DefaultDecay),
     step |-> 0, cycles |-> 0]

\* no reward calculator has been constructed on its own yet; fed is the
\* score vectors given to update_scores so far, rewards what the last
\* calculate_rewards of the median calculator returned
NoCalculators ==
    [constructed |-> FALSE, median |-> NewRewardCalculator,
     simple |-> NewSimpleCalculator, consensus |-> NewConsensusCalculator(0),
     fed |-> <<>>, asked |-> FALSE, rewards |-> <<>>]

\* run_script before subprocess.Popen: pc is the place of the parent, child
\* that of the child, script the writes the child is going to make in order
\* and at the number of those it has made, stdout and stderr the lines the two
\* pipes hold
NoProcess ==
    [pc |-> "start", child |-> "none", script |-> <<>>, at |-> 0,
     stdout |-> 0, stderr |-> 0, returncode |-> 0, printed |-> 0]

\* the state before any object is constructed: object o lives in process
\* hosts[o] (0: there is no such object) and is constructed with one of the
\* configurations configs[o]
InitWith(hosts, configs) ==
    /\ host = hosts
    /\ configurations = configs
    /\ np_random \in [Procs -> Unseeded]
    /\ \A p \in Procs : (\A o \in Objects : hosts[o] # p) => np_random[p] = 0
    /\ pc = [o \in Objects |-> IF hosts[o] = 0 THEN "none" ELSE "new"]
    /\ n_models = [o \in Objects |-> 0]
    /\ random_state = [o \in Objects |-> 0]
    /\ acq_strategy = [o \in Objects |-> ""]
    /\ kwargs = [o \in Objects |->
                   [evolution_interval |-> 0, feature_mins |-> None,
                    feature_maxes |-> None]]
    /\ feature_mins = [o \in Objects |-> None]
    /\ feature_maxes = [o \in Objects |-> None]
    /\ models = [o \in Objects |-> <<>>]
    /\ model_params = [o \in Objects |-> <<>>]
    /\ scores = [o \in Objects |-> <<>>]
    /\ step = [o \in Objects |-> 0]
    /\ exploration_std = [o \in Objects |-> 0]
    /\ bandit = [o \in Objects |-> NewBanditGate(0)]
    /\ reward_calculator = [o \in Objects |-> NewRewardCalculator]
    /\ last_call = [o \in Objects |-> NoCall]
    /\ post_processor = NewPostProcessor
    /\ fed = <<>>
    /\ returned = <<>>
    /\ arm = NoArm
    /\ mutation = NoMutation
    /\ tuner = NewTuner
    /\ calculators = NoCalculators
    /\ process = NoProcess

\* ---------------------------------------------------------------- actions
\* the objects S of distinct processes are constructed with the same arguments
ConstructGroup(S) ==
    /\ \A o \in S : pc[o] = "new"
    /\ \E c \in configurations[CHOOSE o \in S : TRUE] :
         /\ \A o \in S : c \in configurations[o]
         /\ \E r \in {[o \in S |-> NewAutoSAD(c, np_random[host[o]])]} :
              /\ Store([o \in Objects |-> IF o \in S THEN r[o].self ELSE Self(o)])
              /\ np_random' = [p \in Procs |->
                                 IF \E o \in S : host[o] = p
                                 THEN r[CHOOSE o \in S : host[o] = p].rng
                                 ELSE np_random[p]]
    /\ pc' = [o \in Objects |-> IF o \in S THEN "ready" ELSE pc[o]]
    /\ UNCHANGED << host, configurations, last_call, rest_vars >>

\* The scorers are deterministic in their configuration and their input: when
\* slot i of two objects that are fed the same stream holds scorers of the same
\* class and configuration that were created at the same instant of the
\* stream, the two give the same raw score.
SameScorer(o1, o2, i) ==
    /\ i \in DOMAIN models[o1] /\ i \in DOMAIN models[o2]
    /\ models[o1][i] = models[o2][i]
    /\ model_params[o1][i] = model_params[o2][i]
    /\ scores[o1][i].count = scores[o2][i].count

\* Objects 1 and 2 are twins: two processes construct them with the same
\* arguments and feed them the same stream.
Twins == {1, 2}

\* the number of instances the driver feeds o: an object that was put into
\* the process of a twin is fed a short stream
Instances(o) ==
    IF o \notin Twins /\ \E q \in Twins : host[q] = host[o]
    THEN MaxSharedSteps ELSE MaxSteps

\* the raw scores the scorers of the objects S can give on one instance
GroupRawScores(S) ==
    { raw \in [S -> [1..MaxModels -> RawScores]] :
        /\ \A o \in S : \A i \in 1..MaxModels :
               i \notin DOMAIN models[o] => raw[o][i] = 0
        /\ \A o1, o2 \in S : \A i \in 1..MaxModels :
               SameScorer(o1, o2, i) => raw[o1][i] = raw[o2][i] }

\* the objects S of distinct processes process the next instance of the stream
\* they are all fed
FitGroup(S) ==
    /\ \A o \in S : pc[o] = "ready" /\ last_call[o].number < Instances(o)
    /\ \A o1, o2 \in S : last_call[o1].number = last_call[o2].number
    /\ \E raw \in GroupRawScores(S) :
         \E r \in {[o \in S |->
                      FitScorePartial(Self(o),
                                      [i \in 1..n_models[o] |-> raw[o][i]],
                                      np_random[host[o]])]} :
             /\ Store([o \in Objects |-> IF o \in S THEN r[o].self ELSE Self(o)])
             /\ np_random' = [p \in Procs |->
                                IF \E o \in S : host[o] = p
                                THEN r[CHOOSE o \in S : host[o] = p].rng
                                ELSE np_random[p]]
             /\ last_call' = [o \in Objects |->
                                IF o \in S
                                THEN [r[o].call EXCEPT
                                        !.number = last_call[o].number + 1]
                                ELSE last_call[o]]
    /\ UNCHANGED << host, configurations, pc, rest_vars >>

\* AutoSAD(**c) in the process of o
Construct(o) == ConstructGroup({o})

\* o.fit_score_partial(X)
Fit(o) == FitGroup({o})

ConstructTwins == ConstructGroup(Twins)

FitTwins == FitGroup(Twins)

\* the raw scores fed to the PostProcessor: small ones and the extreme floats
Scores == ((-MaxScore)..MaxScore) \cup {-MaxFloat, MaxFloat}

\* post_processor.process(score)
ProcessCall ==
    /\ Len(fed) < MaxCalls
    /\ \E score \in Scores, numpy \in BOOLEAN :
         \E r \in {Process(post_processor, score, numpy)} :
             /\ post_processor' = r.pp
             /\ fed' = Append(fed, score)
             /\ returned' = Append(returned, [raised |-> r.raised, value |-> r.ret])
    /\ UNCHANGED << pool_vars, mutate_vars, tuner_vars >>

\* the exploration_std values mutate is run with
Sigmas == {ONE \div 10, ONE \div 2, ONE, 2 * ONE}

\* the grid parameters of variant name that the configuration params lacks
Lacking(name, params) ==
    {k \in DOMAIN HyperparameterOptions(name) :
        HyperparameterOptions(name)[k].p \notin DOMAIN params}

\* a caller seeds the generator and draws an arm: random_model_with_params()
DrawArm ==
    /\ arm = NoArm
    /\ \E seed \in Seeds : \E r \in {RandomModelWithParams(Owner(seed, ONE), Seeded(seed))} :
         /\ arm' = [model |-> r.model, params |-> r.params,
                    random_state |-> seed, mutations |-> 0]
         /\ np_random' = [np_random EXCEPT ![1] = r.rng]
    /\ UNCHANGED << host, configurations, pc, object_vars, last_call,
                    post_vars, mutation, tuner_vars >>

\* the caller hands mutate a configuration that lacks the grid parameter p
DropParam ==
    /\ arm # NoArm
    /\ Lacking(arm.model, arm.params) = {}
    /\ \E k \in DOMAIN HyperparameterOptions(arm.model) :
         arm' = [arm EXCEPT !.params =
                    [q \in DOMAIN arm.params \ {HyperparameterOptions(arm.model)[k].p}
                       |-> arm.params[q]]]
    /\ UNCHANGED << pool_vars, post_vars, mutation, tuner_vars >>

\* mutate(arm) with exploration_std = sigma; the new arm takes the place of arm
MutateArm ==
    /\ arm # NoArm
    /\ arm.mutations < MaxMutations
    /\ \E sigma \in Sigmas :
         \E r \in {Mutate(Owner(arm.random_state, sigma), arm.model,
                          arm.params, np_random[1])} :
             /\ mutation' = [given |-> arm.params, sigma |-> sigma,
                             model |-> r.model, params |-> r.params,
                             paths |-> r.paths, raised |-> r.raised]
             /\ arm' = IF r.raised THEN [arm EXCEPT !.mutations = @ + 1]
                       ELSE [arm EXCEPT !.params = r.params, !.mutations = @ + 1]
             /\ np_random' = [np_random EXCEPT ![1] = r.rng]
    /\ UNCHANGED << host, configurations, pc, object_vars, last_call,
                    post_vars, tuner_vars >>

\* the decay_factor arguments of ConsensusRewardCalculator: the default 0.005
\* and 0.2, whose tenfold is above 1
ConsensusDecays == {ONE \div 200, ONE \div 5}

\* the normalized scores of one instance, one per arm
ScoreVectors(n) == [1..n -> {0, ONE}]

\* the three reward calculators are constructed
ConstructCalculators ==
    /\ ~calculators.constructed
    /\ \E d \in ConsensusDecays :
         calculators' = [calculators EXCEPT
                           !.constructed = TRUE,
                           !.consensus = NewConsensusCalculator(d)]
    /\ UNCHANGED << pool_vars, post_vars, mutate_vars, tuner, process >>

\* update_scores(normalized_scores) of each of them, with the scores of a
\* pool whose size the first call sets
UpdateCalculators ==
    /\ calculators.constructed
    /\ Len(calculators.fed) < MaxUpdates
    /\ \E n \in 2..MaxModels :
         /\ calculators.fed # <<>> => n = Len(calculators.fed[1])
         /\ \E v \in ScoreVectors(n) :
              calculators' =
                [calculators EXCEPT
                   !.median = UpdateScores(@, v),
                   !.simple = SimpleUpdateScores(@, v),
                   !.consensus = ConsensusUpdateScores(@, v),
                   !.fed = Append(@, v),
                   !.asked = FALSE,
                   !.rewards = <<>>]
    /\ UNCHANGED << pool_vars, post_vars, mutate_vars, tuner, process >>

\* calculate_rewards() of the median calculator
AskRewards ==
    /\ calculators.constructed
    /\ ~calculators.asked
    /\ calculators' = [calculators EXCEPT
                         !.asked = TRUE,
                         !.rewards = CalculateRewards(calculators.median)]
    /\ UNCHANGED << pool_vars, post_vars, mutate_vars, tuner, process >>

\* the outputs of a child: a line to stdout or a line to stderr at a time
Scripts == UNION {[1..n -> {"stdout", "stderr"}] : n \in 0..MaxOutput}

\* process = subprocess.Popen(command, stdout=PIPE, stderr=PIPE, text=True)
Popen ==
    /\ process.pc = "start"
    /\ \E w \in Scripts, rc \in {0, 1} :
         process' = [process EXCEPT !.pc = "reading", !.child = "running",
                                    !.script = w, !.returncode = rc]
    /\ UNCHANGED << pool_vars, post_vars, mutate_vars, tuner, calculators >>

\* the child writes its next line; the write blocks while the pipe is full
ChildWrites ==
    /\ process.child = "running"
    /\ process.at < Len(process.script)
    /\ process[process.script[process.at + 1]] < PipeCapacity
    /\ process' = [process EXCEPT ![process.script[process.at + 1]] = @ + 1,
                                  !.at = @ + 1]
    /\ UNCHANGED << pool_vars, post_vars, mutate_vars, tuner, calculators >>

\* the child has written everything and exits, which closes its pipe ends
ChildExits ==
    /\ process.child = "running"
    /\ process.at = Len(process.script)
    /\ process' = [process EXCEPT !.child = "exited"]
    /\ UNCHANGED << pool_vars, post_vars, mutate_vars, tuner, calculators >>

\* for line in process.stdout: print(line, end=''), a line is there
ReadsLine ==
    /\ process.pc = "reading"
    /\ process.stdout > 0
    /\ process' = [process EXCEPT !.stdout = @ - 1, !.printed = @ + 1]
    /\ UNCHANGED << pool_vars, post_vars, mutate_vars, tuner, calculators >>

\* for line in process.stdout: the pipe is empty and closed, the loop ends
ReadsEof ==
    /\ process.pc = "reading"
    /\ process.stdout = 0
    /\ process.child = "exited"
    /\ process' = [process EXCEPT !.pc = "waiting"]
    /\ UNCHANGED << pool_vars, post_vars, mutate_vars, tuner, calculators >>

\* process.wait() returns and the return code is 0: run_script returns
WaitsAndReturns ==
    /\ process.pc = "waiting"
    /\ process.child = "exited"
    /\ process.returncode = 0
    /\ process' = [process EXCEPT !.pc = "done"]
    /\ UNCHANGED << pool_vars, post_vars, mutate_vars, tuner, calculators >>

\* process.wait() returns and the return code is not 0:
\* print(process.stderr.read()), then run_script returns
WaitsAndReports ==
    /\ process.pc = "waiting"
    /\ process.child = "exited"
    /\ process.returncode # 0
    /\ process' = [process EXCEPT !.pc = "done", !.stderr = 0,
                                  !.printed = @ + process.stderr]
    /\ UNCHANGED << pool_vars, post_vars, mutate_vars, tuner, calculators >>

\* ---------------------------------------------------------- specifications
\* the runs of the benchmark: every pool size and seed with the interval of
\* fit_score_partial, and the ablation of evolution_interval
RunConfigurations ==
    { Configuration(n, seed, "UCB", EvolvePeriod) :
        n \in 1..MaxModels, seed \in Seeds }
    \cup { Configuration(n, 0, "UCB", i) :
             n \in 1..MaxTwinModels, i \in EvolutionIntervals }

TwinConfigurations ==
    { Configuration(n, seed, "UCB", EvolvePeriod) :
        n \in 1..MaxTwinModels, seed \in Seeds }

\* one AutoSAD object alone in its process
Init ==
    InitWith([o \in Objects |-> IF o = 1 THEN 1 ELSE 0],
             [o \in Objects |-> IF o = 1 THEN RunConfigurations ELSE {}])

Next == \E o \in Objects : Construct(o) \/ Fit(o)

Spec == Init /\ [][Next]_vars

\* two runs: the twins, each alone in a process of its own
InitRuns ==
    InitWith([o \in Objects |-> IF o = 3 THEN 0 ELSE o],
             [o \in Objects |-> IF o = 3 THEN {} ELSE TwinConfigurations])

NextRuns == ConstructTwins \/ FitTwins

SpecRuns == InitRuns /\ [][NextRuns]_vars

\* object 3 shares the process of object 1; object 2, the twin of object 1,
\* runs alone in another process
SharedConfigurations ==
    [o \in Objects |->
        IF o \in Twins
        THEN { Configuration(MaxTwinModels, 0, "UCB", EvolvePeriod) }
        ELSE { Configuration(1, seed, "UCB", EvolvePeriod) : seed \in Seeds }]

InitShared ==
    InitWith([o \in Objects |-> IF o = 2 THEN 2 ELSE 1], SharedConfigurations)

NextShared == ConstructTwins \/ FitTwins \/ Construct(3) \/ Fit(3)

SpecShared == InitShared /\ [][NextShared]_vars

\* one object under each acquisition strategy string the constructor accepts
\* (it accepts every string)
Strategies == {"UCB", "EI", "PI", "ucb", "TS"}

StrategyConfigurations ==
    { Configuration(n, 0, strategy, EvolvePeriod) :
        n \in 1..MaxTwinModels, strategy \in Strategies }

InitStrategies ==
    InitWith([o \in Objects |-> IF o = 1 THEN 1 ELSE 0],
             [o \in Objects |-> IF o = 1 THEN StrategyConfigurations ELSE {}])

SpecStrategies == InitStrategies /\ [][Next]_vars

\* the scaling vectors a caller may give: none, those of the data set, others
FeatureVectors ==
    { [mins |-> None, maxes |-> None],
      [mins |-> DataMins, maxes |-> DataMaxes],
      [mins |-> <<-1>>, maxes |-> <<1>>] }

ScalingConfigurations ==
    { WithFeatures(Configuration(MaxTwinModels, seed, "UCB", EvolvePeriod),
                   v.mins, v.maxes) :
        seed \in Seeds, v \in FeatureVectors }

InitScaling ==
    InitWith([o \in Objects |-> IF o = 1 THEN 1 ELSE 0],
             [o \in Objects |-> IF o = 1 THEN ScalingConfigurations ELSE {}])

SpecScaling == InitScaling /\ [][Next]_vars

\* the raw scores the two scorers may give, as numpy floats
TunerScores == {-MaxFloat, 0, 1, MaxFloat}

\* the scoring pass of fit_score_partial on the two normalizers
ScoreArms ==
    /\ tuner.step < MaxTunerSteps
    /\ \E raw \in [1..2 -> TunerScores] :
         tuner' = [tuner EXCEPT
                     !.scores = [i \in 1..2 |-> Process(@[i], raw[i], TRUE).pp],
                     !.step = @ + 1]
    /\ UNCHANGED << pool_vars, post_vars, mutate_vars, calculators, process >>

\* _evolve() on that pool: the decay update, then fresh normalizers in the
\* slots the cycle replaces (of two arms the mutation stage replaces one and
\* the diversity guard may replace the second slot)
EvolveTuner ==
    /\ tuner.step > 0
    /\ tuner.cycles < MaxCycles
    /\ IsFinite(tuner.exploration_std) /\ IsFinite(tuner.decay)
    /\ \E replaced \in {{1}, {2}, {1, 2}} :
         \E d \in {DecayUpdate(tuner.exploration_std.v, tuner.decay.v,
                                tuner.scores)} :
             tuner' = [tuner EXCEPT
                         !.exploration_std = d.exploration_std,
                         !.decay = d.decay,
                         !.scores = [i \in 1..2 |->
                                       IF i \in replaced THEN NewPostProcessor
                                       ELSE @[i]],
                         !.cycles = @ + 1]
    /\ UNCHANGED << pool_vars, post_vars, mutate_vars, calculators, process >>

NextTuner == ScoreArms \/ EvolveTuner

InitTuner == InitWith([o \in Objects |-> 0], [o \in Objects |-> {}])

SpecTuner == InitTuner /\ [][NextTuner]_vars

\* random_model_with_params and mutate on their own
NextMutate == DrawArm \/ DropParam \/ MutateArm

InitMutate == InitWith([o \in Objects |-> 0], [o \in Objects |-> {}])

SpecMutate == InitMutate /\ [][NextMutate]_vars

\* the reward calculators on their own
NextCalculators == ConstructCalculators \/ UpdateCalculators \/ AskRewards

InitCalculators == InitWith([o \in Objects |-> 0], [o \in Objects |-> {}])

SpecCalculators == InitCalculators /\ [][NextCalculators]_vars

\* run_script with a valid model name
NextRunScript ==
    \/ Popen \/ ChildWrites \/ ChildExits
    \/ ReadsLine \/ ReadsEof \/ WaitsAndReturns \/ WaitsAndReports

InitRunScript == InitWith([o \in Objects |-> 0], [o \in Objects |-> {}])

SpecRunScript == InitRunScript /\ [][NextRunScript]_vars

\* a PostProcessor on its own
InitPostProcessor ==
    InitWith([o \in Objects |-> 0], [o \in Objects |-> {}])

SpecPostProcessor == InitPostProcessor /\ [][ProcessCall]_vars

\* ------------------------------------------------------------- properties
\* the latest call of process on the stand-alone PostProcessor
LastFed == fed[Len(fed)]
LastReturned == returned[Len(returned)]
HasReturned == Len(returned) > 0 /\ ~LastReturned.raised

\* C9: every value that process returns for a finite raw score lies in [0, 1].
NormalizationBound ==
    \A k \in DOMAIN returned :
        ~returned[k].raised =>
            /\ IsFinite(returned[k].value)
            /\ 0 <= returned[k].value.v /\ returned[k].value.v <= ONE

\* C10, as stated: process returns 0 exactly when the running maximum equals
\* the running minimum after the update.
ZeroExactlyWhenNoSpread ==
    HasReturned =>
        (LastReturned.value = Finite(0) <=> post_processor.max = post_processor.min)

\* C10, amended: process returns 0 whenever the raw score is the running
\* minimum after the update, which is the case whenever max == min; a value
\* other than 0 is returned only for a score above the running minimum.
ZeroAtRunningMinimum ==
    HasReturned =>
        /\ post_processor.max = post_processor.min => LastReturned.value = Finite(0)
        /\ Finite(LastFed) = post_processor.min => LastReturned.value = Finite(0)
        /\ LastReturned.value # Finite(0) =>
               /\ FloatLess(post_processor.min, Finite(LastFed))
               /\ post_processor.max # post_processor.min

\* a score that is the running minimum of a tracker with spread returned 0
ZeroWithSpread ==
    /\ HasReturned
    /\ post_processor.max # post_processor.min
    /\ Finite(LastFed) = post_processor.min
    /\ LastReturned.value = Finite(0)

Ready == {o \in Objects : pc[o] = "ready"}

\* the slots of o that hold variant t
SlotsOf(o, t) == {i \in DOMAIN models[o] : models[o][i] = t}

\* C1: the pool of an object constructed with n_models = N holds exactly N
\* arms at all times: models, model_params, scores and the bandit's pull-count
\* and mean arrays all have length N.
PoolSizeInvariant ==
    \A o \in Ready :
        /\ Len(models[o]) = n_models[o]
        /\ Len(model_params[o]) = n_models[o]
        /\ Len(scores[o]) = n_models[o]
        /\ Len(bandit[o].n) = n_models[o]
        /\ Len(bandit[o].mean) = n_models[o]

\* an evolution cycle has just mutated an arm and replaced arms in the guard
PoolSizeAfterReplacement ==
    \E o \in Ready :
        /\ n_models[o] >= 2
        /\ last_call[o].evolved
        /\ Len(last_call[o].targets) > 0
        /\ Len(last_call[o].guard.replaced) > 0
        /\ Len(models[o]) = n_models[o]

\* C2: in the state immediately after _evolve returns, no variant occupies
\* more than 70% of the slots of a pool of two or more arms.
DiversityInvariant ==
    \A o \in Ready :
        (last_call[o].evolved /\ n_models[o] >= 2) =>
            \A k \in DOMAIN Variants :
                ~Dominates(Cardinality(SlotsOf(o, Variants[k])), n_models[o])

\* C3: when the diversity guard fires for a variant, the one arm of the
\* variant that it keeps has the minimum acquisition value among the arms of
\* the variant, and every other arm of the variant is replaced.
KeptArmIsBest ==
    \A o \in Ready :
        LET g    == last_call[o].guard
            mem  == {g.members[k] : k \in DOMAIN g.members}
            gone == {g.replaced[k] : k \in DOMAIN g.replaced}
        IN  g.variant # "" =>
                /\ Cardinality(mem \ gone) = 1
                /\ \A kept \in mem \ gone : \A j \in mem : g.acq[kept] <= g.acq[j]

\* C4: _evolve runs while the s-th instance is processed exactly when s is a
\* positive multiple of the evolution_interval the object was configured with.
CadenceFollowsConfiguration ==
    \A o \in Ready :
        step[o] > 0 =>
            (last_call[o].evolved <=> step[o] % kwargs[o].evolution_interval = 0)

\* C7, as stated: after k calls of fit_score_partial, bandit.t = k.
BanditTimeIsStep == \A o \in Ready : bandit[o].t = step[o]

\* C7, amended: the bandit is updated once per arm for every instance, so
\* after k calls of fit_score_partial on a pool of N arms, bandit.t = k * N.
BanditTimeIsStepTimesArms ==
    \A o \in Ready : bandit[o].t = step[o] * n_models[o]

\* a pool of several arms has processed instances past an evolution cycle
SeveralArmsPastEvolution ==
    \E o \in Ready :
        /\ n_models[o] >= 2
        /\ step[o] > EvolvePeriod
        /\ bandit[o].t = step[o] * n_models[o]

\* C8: every arm whose pull count is 0 has mean 0.
UnpulledArmHasZeroMean ==
    \A o \in Ready :
        \A i \in DOMAIN bandit[o].n :
            bandit[o].n[i] = 0 => bandit[o].mean[i] = 0

\* an evolution cycle has just reset an arm while another arm keeps a mean
ResetNextToPulledArm ==
    \E o \in Ready :
        /\ last_call[o].evolved
        /\ \E i, j \in DOMAIN bandit[o].n :
              /\ bandit[o].n[i] = 0 /\ bandit[o].mean[i] = 0
              /\ bandit[o].n[j] > 0 /\ bandit[o].mean[j] > 0

\* C11: fit_score_partial never surfaces an error to its caller: every call on
\* a constructed object returns a float.
EveryCallReturns == \A o \in Ready : ~last_call[o].raised

\* C5: two objects constructed with the same arguments in two processes and
\* fed the same stream return the same scores and hold the same state.
TwinsAgree ==
    Twins \subseteq Ready =>
        /\ Self(1) = Self(2)
        /\ last_call[1].ret = last_call[2].ret

\* the twins, pools of several arms, have both gone through an evolution
\* cycle that drew from the generators of their processes
TwinsEvolved ==
    /\ Twins \subseteq Ready
    /\ \A o \in Twins : step[o] >= EvolvePeriod /\ n_models[o] >= 2
    /\ models[1] = models[2] /\ model_params[1] = model_params[2]

\* C6: an object that shares its process with another object returns the same
\* scores and evolves its pool in the same way as when it runs alone, for
\* every interleaving of the calls of the two.
SharingIsUnobservable ==
    Twins \subseteq Ready =>
        /\ models[1] = models[2]
        /\ model_params[1] = model_params[2]
        /\ last_call[1].ret = last_call[2].ret

\* the latest mutate returned a new arm
Mutated == mutation # NoMutation /\ ~mutation.raised

\* the grid of the parameter p of the arm last given to mutate
GridOf(p) ==
    LET opts == HyperparameterOptions(mutation.model)
    IN  opts[CHOOSE k \in DOMAIN opts : opts[k].p = p]

\* C12: a mutate that is given a configuration lacking a parameter of its
\* variant's grid aborts with an error and makes no new arm.
MissingParameterIsFatal ==
    (mutation # NoMutation /\ Lacking(mutation.model, mutation.given) # {})
        => mutation.raised

NumericParametersTakeNumericPath ==
    Mutated =>
        \A p \in DOMAIN mutation.paths :
            IF GridOf(p).kind = "str" THEN mutation.paths[p] = "categorical"
            ELSE mutation.paths[p] = "numeric"


\* the slots the evolution cycle of the latest call of o replaced
Range(s) == {s[i] : i \in DOMAIN s}
ReplacedBy(call) == Range(call.targets) \cup Range(call.guard.replaced)

\* C13: the value a call returns is the normalized score the selected arm gave
\* for this instance, and the selected arm is the first arm of least
\* acquisition value after this instance's bandit updates, before evolution.
ReturnsScoreOfSelectedArm ==
    [][\A o \in Objects :
         (last_call'[o].number # last_call[o].number /\ ~last_call'[o].raised)
         => LET rc == reward_calculator'[o]
                k  == last_call'[o].arm
            IN  \E q \in {Acq(UpdateBandit(bandit[o], CalculateRewards(rc), 1),
                              acq_strategy[o])} :
                    /\ k \in 1..n_models[o]
                    /\ \A j \in 1..n_models[o] :
                         q[k] < q[j] \/ (q[k] = q[j] /\ k <= j)
                    /\ last_call'[o].ret
                         = rc.model_scores[k][Len(rc.model_scores[k])]
      ]_vars

\* a call whose evolution cycle replaced the arm it had selected
SelectedArmReplaced ==
    \E o \in Ready :
        /\ last_call[o].evolved
        /\ last_call[o].arm \in ReplacedBy(last_call[o])
        /\ n_models[o] > 1


\* the last entry of a sequence
Last(s) == s[Len(s)]

\* a slot the cycle of the call left alone carries this instance's updates
Carried(o, i) ==
    /\ scores'[o][i].count = scores[o][i].count + 1
    /\ bandit'[o].n[i] = bandit[o].n[i] + 1
    /\ bandit'[o].mean[i]
         = Ewma(bandit[o].decay,
                ONE - CalculateRewards(reward_calculator'[o])[i],
                bandit[o].mean[i])
    /\ models'[o][i] = models[o][i]
    /\ model_params'[o][i] = model_params[o][i]

\* a slot the cycle of the call replaced is fresh
Fresh(o, i) ==
    /\ scores'[o][i] = NewPostProcessor
    /\ bandit'[o].n[i] = 0
    /\ bandit'[o].mean[i] = 0

\* C14: a call scores every arm once, updates the reward calculator once with
\* the full vector, then the bandit for each arm, then increments the step
\* counter, then runs the whole evolution cycle if it is due: after the call
\* every slot is either carried or replaced, none in between.
PhasesInOrder ==
    [][\A o \in Objects :
         (last_call'[o].number # last_call[o].number /\ ~last_call'[o].raised)
         => LET rc == reward_calculator'[o]
                N  == n_models[o]
            IN  /\ rc.n_models = N
                /\ \A i \in 1..N :
                     Len(rc.model_scores[i]) = Len(rc.median_scores)
                /\ Len(rc.median_scores)
                     = Min2(WindowSize, Len(reward_calculator[o].median_scores) + 1)
                /\ Last(rc.median_scores)
                     = Median([i \in 1..N |-> Last(rc.model_scores[i])])
                /\ bandit'[o].t = bandit[o].t + N
                /\ step'[o] = step[o] + 1
                /\ last_call'[o].evolved = EvolutionDue(step'[o])
                /\ ~last_call'[o].evolved => ReplacedBy(last_call'[o]) = {}
                /\ \A i \in 1..N :
                     IF i \in ReplacedBy(last_call'[o]) THEN Fresh(o, i)
                     ELSE Carried(o, i)
      ]_vars

\* a cycle that mutated one arm, replaced another and left a third alone
CycleOfThreeKinds ==
    \E o \in Ready :
        /\ last_call[o].evolved
        /\ Range(last_call[o].targets) # {}
        /\ Range(last_call[o].guard.replaced) \ Range(last_call[o].targets) # {}
        /\ ReplacedBy(last_call[o]) # 1..n_models[o]


\* C15: with the arms ranked ascending by acquisition value, the N div 2 best
\* are the sources and the N div 2 worst the targets, the two sets are
\* disjoint, and the mutation stage changes target slots only.
MutationStageFrame ==
    \A o \in Ready :
        last_call[o].evolved =>
            LET call == last_call[o]
                N    == n_models[o]
                q    == call.acq
                S    == Range(call.sources)
                T    == Range(call.targets)
            IN  /\ Len(call.sources) = N \div 2 /\ Cardinality(S) = N \div 2
                /\ Len(call.targets) = N \div 2 /\ Cardinality(T) = N \div 2
                /\ S \cap T = {}
                /\ \A i \in S : \A j \in (1..N) \ S : Before(q, i, j)
                /\ \A i \in T : \A j \in (1..N) \ T : Before(q, j, i)
                /\ \A i \in (1..N) \ T : call.mutated[i] = call.ranked[i]
                /\ N = 1 => call.mutated = call.ranked

\* a cycle on three arms: one source, one target whose slot changed, and the
\* middle arm
OddPoolMutated ==
    \E o \in Ready :
        /\ last_call[o].evolved
        /\ n_models[o] = 3
        /\ \E i \in Range(last_call[o].targets) :
             last_call[o].mutated[i] # last_call[o].ranked[i]


\* C16: in a step, slot i gets a fresh normalizer and bandit state (0, 0)
\* exactly if the step's evolution cycle mutated or replaced it; in every other
\* step its pull count and normalizer count grow by one, its running minimum
\* does not increase and its running maximum does not decrease.
ResetExactlyOnReplacement ==
    [][\A o \in Objects :
         (last_call'[o].number # last_call[o].number /\ ~last_call'[o].raised)
         => \A i \in 1..n_models[o] :
              IF i \in ReplacedBy(last_call'[o])
              THEN /\ scores'[o][i] = NewPostProcessor
                   /\ bandit'[o].n[i] = 0
                   /\ bandit'[o].mean[i] = 0
              ELSE /\ bandit'[o].n[i] = bandit[o].n[i] + 1
                   /\ scores'[o][i].count = scores[o][i].count + 1
                   /\ ~FloatLess(scores[o][i].min, scores'[o][i].min)
                   /\ ~FloatLess(scores'[o][i].max, scores[o][i].max)
      ]_vars

\* a step whose cycle reset a slot that had pulls and a spread, next to a slot
\* it left alone
ResetNextToKeptSlot ==
    \E o \in Ready :
        /\ last_call[o].evolved
        /\ \E i \in ReplacedBy(last_call[o]) :
             /\ last_call[o].ranked[i].n > 0
             /\ FloatLess(last_call[o].ranked[i].scores.min,
                          last_call[o].ranked[i].scores.max)
             /\ scores[o][i] = NewPostProcessor
        /\ \E j \in (1..n_models[o]) \ ReplacedBy(last_call[o]) :
             scores[o][j].count > 1


\* the candidates of a grid option, as a set
Candidates(opt) == {opt.vals[k] : k \in DOMAIN opt.vals}

\* C20: every arm's configuration holds, for every parameter of its variant's
\* grid, a member of the candidate list, and a HalfSpaceTrees arm's
\* feature_mins / feature_maxes are the vectors given at construction.
ConfigurationInvariant ==
    \A o \in Ready :
        /\ feature_mins[o] = kwargs[o].feature_mins
        /\ feature_maxes[o] = kwargs[o].feature_maxes
        /\ \A i \in DOMAIN models[o] :
             LET opts == HyperparameterOptions(models[o][i])
                 cfg  == model_params[o][i]
             IN  /\ \A k \in DOMAIN opts :
                      /\ opts[k].p \in DOMAIN cfg
                      /\ cfg[opts[k].p].v \in Candidates(opts[k])
                 /\ models[o][i] = "HalfSpaceTrees" =>
                      /\ "feature_mins" \in DOMAIN cfg
                      /\ "feature_maxes" \in DOMAIN cfg
                      /\ cfg["feature_mins"].v = kwargs[o].feature_mins
                      /\ cfg["feature_maxes"].v = kwargs[o].feature_maxes

\* a HalfSpaceTrees arm made by mutate or by the diversity guard, in an object
\* that was given scaling vectors
ScaledArmReplaced ==
    \E o \in Ready :
        /\ kwargs[o].feature_mins # None
        /\ \E i \in ReplacedBy(last_call[o]) : models[o][i] = "HalfSpaceTrees"


\* C17: for every stream of raw scores, exploration_std lies in [0.1, 2.0] and
\* bandit.decay is at least 0.01.
DecayBounds ==
    /\ IsFinite(tuner.exploration_std)
    /\ tuner.exploration_std.v >= ONE \div 10
    /\ tuner.exploration_std.v <= 2 * ONE
    /\ ~tuner.decay.nan
    /\ ~FloatLess(tuner.decay, Finite(ONE \div 100))

\* the scores arm i was given, oldest first
Column(vs, i) == [t \in 1..Len(vs) |-> vs[t][i]]

\* the newest n entries of s
Newest(s, n) == SubSeq(s, Len(s) - n + 1, Len(s))

\* C21: after k calls of update_scores every per-arm history of the median
\* and of the simple calculator is the newest min(k, window_size) scores the
\* arm was given, in the order given, and the median history is the medians
\* of the same instances, so it has the length of every per-arm history
BoundedFifoHistory ==
    LET c    == calculators
        k    == Len(c.fed)
        kept == Min2(k, WindowSize)
    IN  k > 0 =>
          /\ Len(c.median.model_scores) = Len(c.fed[1])
          /\ Len(c.simple.recent_scores) = Len(c.fed[1])
          /\ \A i \in 1..Len(c.fed[1]) :
               /\ c.median.model_scores[i] = Newest(Column(c.fed, i), kept)
               /\ c.simple.recent_scores[i] = Newest(Column(c.fed, i), kept)
               /\ Len(c.median.median_scores) = Len(c.median.model_scores[i])
          /\ c.median.median_scores
               = Newest([t \in 1..k |-> Median(c.fed[t])], kept)

\* more vectors were fed than the window holds, and the first one differs
\* from the one that took its place
HistoryPastWindow ==
    /\ Len(calculators.fed) > WindowSize
    /\ calculators.fed[1] # calculators.fed[Len(calculators.fed) - WindowSize + 1]
    /\ Len(calculators.median.median_scores) = WindowSize

WarmUpCoversFirstUpdates ==
    LET cc == calculators.consensus
    IN  cc.n_updates > 0 =>
          cc.effective_decay = IF cc.n_updates <= WarmUpUpdates
                               THEN Min2(ONE, 10 * cc.decay)
                               ELSE cc.decay

\* the mean of the absolute correlations of arm i with the other arms
RowRewardOverOthers(row, i) ==
    SumSeq([j \in DOMAIN row |-> IF j = i THEN 0 ELSE Abs(row[j])])
        \div (Len(row) - 1)

\* C24: after an update with enough signal (enough updates, no variance
\* below the floor) the reward of every arm is the mean of the absolute
\* values of its correlations with the other N - 1 arms
ConsensusRewardIsMeanOverOthers ==
    LET cc == calculators.consensus
    IN  (cc.n_updates >= MinUpdates /\ ~NoVariance(cc)) =>
          \A i \in 1..cc.n_models :
              cc.rewards[i] = RowRewardOverOthers(cc.corr_matrix[i], i)

\* C25: after every call, the pull count of every slot is the number of
\* instances processed since the slot was created or replaced: the step
\* counter while no cycle has run, 0 for a slot the cycle of the latest call
\* replaced, and never more than the step counter
PullsCountInstances ==
    \A o \in Ready : \A i \in 1..n_models[o] :
        /\ bandit[o].n[i] <= step[o]
        /\ step[o] < EvolvePeriod => bandit[o].n[i] = step[o]
        /\ (last_call[o].evolved /\ i \in ReplacedBy(last_call[o]))
           => bandit[o].n[i] = 0

\* C26: while the reward calculator holds fewer vectors than it asks for,
\* a call under UCB, EI or PI gives every arm the reward 0 (loss 1), leaves
\* all arms with equal pull counts, equal means and equal acquisition values,
\* selects the first slot and returns the first slot's normalized score
ColdStartSelectsFirstSlot ==
    [][\A o \in Objects :
         (/\ last_call'[o].number # last_call[o].number
          /\ ~last_call'[o].raised
          /\ step'[o] < MinHistory)
         => LET rc == reward_calculator'[o]
                b  == bandit'[o]
            IN  /\ \A i \in 1..n_models[o] :
                     /\ CalculateRewards(rc)[i] = 0
                     /\ b.mean[i] = Ewma(bandit[o].decay, ONE, bandit[o].mean[i])
                     /\ b.n[i] = b.n[1]
                     /\ b.mean[i] = b.mean[1]
                /\ \E q \in {Acq(b, acq_strategy[o])} :
                     \A i \in 1..n_models[o] : q[i] = q[1]
                /\ last_call'[o].arm = 1
                /\ last_call'[o].ret = Last(rc.model_scores[1])
      ]_vars

\* a pool of several arms under EI or PI has returned from a call during the
\* cold start
ColdStartOfSeveralArms ==
    \E o \in Ready :
        /\ n_models[o] > 1
        /\ Upper(acq_strategy[o]) \in {"EI", "PI"}
        /\ step[o] > 0 /\ step[o] < MinHistory
        /\ ~last_call[o].raised
        /\ last_call[o].arm = 1

\* the variants a pool holds
VariantsOf(pool) == {pool[i].model : i \in DOMAIN pool}

\* C27: at the end of the mutation stage every target holds a scorer of its
\* source's variant with the source's configuration keys, so the stage adds
\* no variant to the pool and the number of variants does not grow; a slot
\* that ends the cycle with a variant the mutated pool lacks was replaced by
\* the diversity guard
MutationPreservesVariant ==
    \A o \in Ready :
        last_call[o].evolved =>
            LET call == last_call[o]
            IN  /\ \A k \in DOMAIN call.targets :
                     /\ call.mutated[call.targets[k]].model
                          = call.ranked[call.sources[k]].model
                     /\ DOMAIN call.mutated[call.targets[k]].params
                          = DOMAIN call.ranked[call.sources[k]].params
                /\ VariantsOf(call.mutated) \subseteq VariantsOf(call.ranked)
                /\ Cardinality(VariantsOf(call.mutated))
                     <= Cardinality(VariantsOf(call.ranked))
                /\ \A i \in 1..n_models[o] :
                     models[o][i] \notin VariantsOf(call.mutated)
                     => i \in Range(call.guard.replaced)

\* a cycle whose mutation stage removed a variant from the pool and whose
\* guard brought in a variant the mutated pool did not hold
VariantLostAndIntroduced ==
    \E o \in Ready :
        /\ last_call[o].evolved
        /\ Cardinality(VariantsOf(last_call[o].mutated))
             < Cardinality(VariantsOf(last_call[o].ranked))
        /\ \E i \in 1..n_models[o] :
             models[o][i] \notin VariantsOf(last_call[o].mutated)

\* C28: a call that runs an evolution cycle leaves the reward calculator as
\* the update with this instance's scores made it (the histories of replaced
\* slots included), the bandit's counter t advanced by the N updates of the
\* instance only and the step counter advanced by one
EvolutionFrame ==
    [][\A o \in Objects :
         (/\ last_call'[o].number # last_call[o].number
          /\ ~last_call'[o].raised
          /\ last_call'[o].evolved)
         => LET rc == reward_calculator'[o]
            IN  /\ step'[o] = step[o] + 1
                /\ bandit'[o].t = bandit[o].t + n_models[o]
                /\ Len(rc.model_scores) = n_models[o]
                /\ \A i \in 1..n_models[o] : rc.model_scores[i] # <<>>
                /\ rc = UpdateScores(reward_calculator[o],
                                     [i \in 1..n_models[o] |->
                                        Last(rc.model_scores[i])])
      ]_vars

\* a cycle replaced a slot whose reward history has a spread: the new arm
\* starts with a fresh normalizer and the old arm's history
HistoryInherited ==
    \E o \in Ready :
        /\ last_call[o].evolved
        /\ \E i \in ReplacedBy(last_call[o]) :
             /\ Spread(reward_calculator[o].model_scores[i])
             /\ scores[o][i] = NewPostProcessor
             /\ last_call[o].ranked[i].model # models[o][i]

\* C29: for every stream of raw scores bandit.decay is a weight: a finite
\* number in [0.01, 1]
DecayIsWeight ==
    /\ IsFinite(tuner.decay)
    /\ tuner.decay.v >= ONE \div 100
    /\ tuner.decay.v <= ONE

\* C30: for every output of the child, run_script returns once the child
\* has finished: there is no state in which run_script and its child wait for
\* each other, so until run_script has returned the parent or the child can
\* take a step
RunScriptNeverStuck == process.pc = "done" \/ ENABLED NextRunScript

====
